---- MODULE Spec2Model ----
(***************************************************************************)
(* State-machine model of handbrake_titles_with_preset.py: the title       *)
(* scanner (scan_for_titles) and the batch sequencer (main).               *)
(***************************************************************************)
EXTENDS Integers, Sequences, FiniteSets, TLC

(*************************** bounds of the model ***************************)
\* Longest configured list of input paths.
MaxPaths == 3
\* Longest scan text, in segments, explored for the scanner on its own.
MaxSegs == 5

(************************ configuration (lines 79-94) **********************)
output_file_directory == "S:\\media\\TV Shows\\Cosmos (2014)\\Season 1\\"
output_file_prefix == "s01e"
output_file_extension == ".mkv"
preset_file_full_path == "S:\\media\\test-transcoding\\presets\\CPU-20RF-slow.json"
preset_name == "H.265 20 RF with metadata"

\* Starting episode numbers explored (episode_num is a user-supplied value).
Starts == {1, 98}

\* Input paths the configuration may list, and what the filesystem holds there.
Paths == {"M:\\Video\\D1", "M:\\Video\\D2", "M:\\Video\\movie.mkv", "M:\\Video\\missing"}

\* Path.is_file() / Path.is_dir() of an input path.
PathKind(p) ==
    CASE p = "M:\\Video\\D1" -> "dir"
      [] p = "M:\\Video\\D2" -> "dir"
      [] p = "M:\\Video\\movie.mkv" -> "file"
      [] OTHER -> "neither"

(****************************** text helpers *******************************)
\* Text read from the engine is a Python str: a sequence of code points.
\* "\n"
NL == 10
\* ":"
Colon == 58
Unset == "<unbound>"

Digits == <<"0", "1", "2", "3", "4", "5", "6", "7", "8", "9">>

\* First code point of every run of ten decimal digits (category Nd, Unicode
\* 14.0.0): "0" is 48, ARABIC-INDIC DIGIT ZERO is 1632, FULLWIDTH DIGIT ZERO is 65296.
DecimalDigitBlocks ==
    {
      48, 1632, 1776, 1984, 2406, 2534, 2662, 2790,
      2918, 3046, 3174, 3302, 3430, 3558, 3664, 3792,
      3872, 4160, 4240, 6112, 6160, 6470, 6608, 6784,
      6800, 6992, 7088, 7232, 7248, 42528, 43216, 43264,
      43472, 43504, 43600, 44016, 65296, 66720, 68912, 69734,
      69872, 69942, 70096, 70384, 70736, 70864, 71248, 71360,
      71472, 71904, 72016, 72784, 73040, 73120, 92768, 92864,
      93008, 120782, 120792, 120802, 120812, 120822, 123200, 123632,
      125264, 130032 }

\* \d of a str pattern: any Unicode decimal digit.
IsDigit(c) == \E b \in DecimalDigitBlocks : b <= c /\ c <= b + 9

\* The literal part of r'\n\+ title (\d+):' before the group.
\* "\n+ title "
TitleMarker == <<10, 43, 32, 116, 105, 116, 108, 101, 32>>

\* First position at or after i that does not hold a digit (greedy \d+).
RECURSIVE DigitRunEnd(_, _)
DigitRunEnd(s, i) ==
    IF i > Len(s) \/ ~IsDigit(s[i]) THEN i ELSE DigitRunEnd(s, i + 1)

\* Whether the pattern matches starting exactly at position i.
MatchAt(s, i) ==
    LET g == i + Len(TitleMarker)
        e == DigitRunEnd(s, g)
    IN  /\ g - 1 <= Len(s)
        /\ SubSeq(s, i, g - 1) = TitleMarker
        /\ e > g
        /\ e <= Len(s)
        /\ s[e] = Colon

\* re.findall from position i: leftmost, non-overlapping matches, group 1.
RECURSIVE FindFrom(_, _)
FindFrom(s, i) ==
    IF i > Len(s) THEN <<>>
    ELSE IF MatchAt(s, i)
         THEN LET g == i + Len(TitleMarker)
                  e == DigitRunEnd(s, g)
              IN  <<SubSeq(s, g, e - 1)>> \o FindFrom(s, e + 1)
         ELSE FindFrom(s, i + 1)

\* re.findall(r'\n\+ title (\d+):', scan)
findall(scan) == FindFrom(scan, 1)

(***************************** name formatting ****************************)
\* str(n) for n >= 0
RECURSIVE NatStr(_)
NatStr(n) == IF n < 10 THEN Digits[n + 1] ELSE NatStr(n \div 10) \o Digits[(n % 10) + 1]

\* format(n, "d")
IntStr(n) == IF n < 0 THEN "-" \o NatStr(0 - n) ELSE NatStr(n)

\* Two low digits only: what a fixed-width field would keep.
FormatEpisodeTruncated(n) == Digits[((n \div 10) % 10) + 1] \o Digits[(n % 10) + 1]

\* f"{episode_num:0>2d}": fill "0", right-aligned, minimum width 2.
FormatEpisode(n) == IF Len(IntStr(n)) < 2 THEN "0" \o IntStr(n) ELSE IntStr(n)

\* f"{output_file_prefix}{episode_num:0>2d}{output_file_extension}"
OutputFileName(n) == output_file_prefix \o FormatEpisode(n) \o output_file_extension

Quote(s) == "\"" \o s \o "\""

base_transcode_commands ==
    <<"HandBrakeCLI", "--preset-import-gui", Quote(preset_file_full_path),
      "-Z", Quote(preset_name)>>

\* A command list that always scans title "0" (the scan invocation's value).
commandsTitleZero(path, title, name) ==
    base_transcode_commands \o <<"--input", Quote(path)>> \o <<"--title", <<48>>>>
        \o <<"--output", Quote(output_file_directory \o name)>>

\* The command list built for one title.
commands(path, title, name) ==
    base_transcode_commands \o <<"--input", Quote(path)>> \o <<"--title", title>>
        \o <<"--output", Quote(output_file_directory \o name)>>

IncrementEpisodeByTwo(n) == n + 2

\* episode_num += 1
IncrementEpisode(n) == n + 1

(********************************* state ***********************************)
VARIABLES
    input_file_paths,   \* configured list of input paths
    start,              \* configured starting episode number
    episode_num,        \* the global episode counter
    outDir,             \* output directory on disk: "absent" or "dir"
    outParent,          \* whether the output directory's parent exists
    pc,                 \* position of main()
    idx,                \* position of the folder loop in input_file_paths
    scan,               \* decoded diagnostic output of the last scan
    titles,             \* result of the last scan
    t,                  \* position of the title loop in titles
    output_file_name,   \* main()'s local, unbound until the first job
    jobs,               \* transcode jobs emitted so far
    scanLog,            \* scans started so far, with their outcome
    summary,            \* lines of the final report printed so far
    beeps,              \* winsound.Beep calls
    failure             \* why the run ended early, or "none"

vars == <<input_file_paths, start, episode_num, outDir, outParent, pc, idx, scan,
          titles, t, output_file_name, jobs, scanLog, summary, beeps, failure>>

(************************* inputs the model draws **************************)
\* "+ title 3:"
TitleLine3 == <<43, 32, 116, 105, 116, 108, 101, 32, 51, 58>>
\* "+ title 68:"
TitleLine68 == <<43, 32, 116, 105, 116, 108, 101, 32, 54, 56, 58>>
\* "+ title 1\uFF15:" (the second digit is FULLWIDTH DIGIT FIVE)
TitleLineWide == <<43, 32, 116, 105, 116, 108, 101, 32, 49, 65301, 58>>
\* "  + dur"
DetailLine == <<32, 32, 43, 32, 100, 117, 114>>

\* Diagnostic texts the engine may print for a folder in a full run ("x" is 120).
ScanOutputs ==
    { <<120, NL>>,
      <<120, NL>> \o TitleLine3 \o <<NL>> \o DetailLine \o <<NL>> \o TitleLine68 \o <<NL>>,
      <<120, NL>> \o TitleLine3 \o <<NL>> \o TitleLine3 \o <<NL>>,
      TitleLine68 \o <<NL>> \o TitleLine3 \o <<NL>>,
      <<120, NL>> \o TitleLineWide \o <<NL>> }

\* Pieces a scan text is assembled from when the scanner is explored alone:
\* newline, "x", ":", "3", ARABIC-INDIC DIGIT THREE, "+ title ", two title lines.
ScanSegments ==
    { <<NL>>, <<120>>, <<Colon>>, <<51>>, <<1635>>,
      <<43, 32, 116, 105, 116, 108, 101, 32>>, TitleLine3, TitleLine68 }

RECURSIVE Flatten(_)
Flatten(ss) == IF ss = <<>> THEN <<>> ELSE Head(ss) \o Flatten(Tail(ss))

ScanTexts == { Flatten(ss) : ss \in UNION { [1..n -> ScanSegments] : n \in 0..MaxSegs } }

Configurations == UNION { [1..n -> Paths] : n \in 0..MaxPaths }

(********************************* Init ************************************)
Init ==
    /\ input_file_paths \in Configurations
    /\ start \in Starts
    /\ episode_num = start
    /\ outParent \in BOOLEAN
    /\ outDir \in (IF outParent THEN {"absent", "dir"} ELSE {"absent"})
    /\ pc = "check_output_dir"
    /\ idx = 1
    /\ scan = <<>>
    /\ titles = <<>>
    /\ t = 1
    /\ output_file_name = Unset
    /\ jobs = <<>>
    /\ scanLog = <<>>
    /\ summary = <<>>
    /\ beeps = 0
    /\ failure = "none"

(***************************** output directory ****************************)
\* if not o.exists():
CheckOutputDir ==
    /\ pc = "check_output_dir"
    /\ pc' = IF outDir = "dir" THEN "for_paths" ELSE "mkdir"
    /\ UNCHANGED <<input_file_paths, start, episode_num, outDir, outParent, idx, scan,
                   titles, t, output_file_name, jobs, scanLog, summary, beeps, failure>>

\* o.mkdir(): non-recursive, raises when the directory exists or the parent is missing.
MakeOutputDir ==
    /\ pc = "mkdir"
    /\ IF ~outParent
       THEN /\ pc' = "crashed" /\ failure' = "FileNotFoundError" /\ outDir' = outDir
       ELSE IF outDir = "dir"
       THEN /\ pc' = "crashed" /\ failure' = "FileExistsError" /\ outDir' = outDir
       ELSE /\ pc' = "for_paths" /\ failure' = failure /\ outDir' = "dir"
    /\ UNCHANGED <<input_file_paths, start, episode_num, outParent, idx, scan,
                   titles, t, output_file_name, jobs, scanLog, summary, beeps>>

\* Another process creates the output directory while the pre-step runs.
OtherProcessCreatesDir ==
    /\ pc \in {"check_output_dir", "mkdir"}
    /\ outParent
    /\ outDir = "absent"
    /\ outDir' = "dir"
    /\ UNCHANGED <<input_file_paths, start, episode_num, outParent, pc, idx, scan,
                   titles, t, output_file_name, jobs, scanLog, summary, beeps, failure>>

(******************************* folder loop *******************************)
AtPath == pc = "for_paths" /\ idx <= Len(input_file_paths)

\* A file branch that counts the file as an episode.
HandleFileCounting ==
    /\ AtPath
    /\ PathKind(input_file_paths[idx]) = "file"
    /\ idx' = idx + 1
    /\ episode_num' = episode_num + 1
    /\ UNCHANGED <<input_file_paths, start, outDir, outParent, pc, scan,
                   titles, t, output_file_name, jobs, scanLog, summary, beeps, failure>>

\* if p.is_file(): print and skip.
HandleFile ==
    /\ AtPath
    /\ PathKind(input_file_paths[idx]) = "file"
    /\ idx' = idx + 1
    /\ UNCHANGED <<input_file_paths, start, episode_num, outDir, outParent, pc, scan,
                   titles, t, output_file_name, jobs, scanLog, summary, beeps, failure>>

\* elif p.is_dir(): scan_for_titles returns the identifiers found in stderr.
scan_for_titles ==
    /\ AtPath
    /\ PathKind(input_file_paths[idx]) = "dir"
    /\ \E text \in ScanOutputs :
          /\ scan' = text
          /\ titles' = findall(text)
          /\ scanLog' = Append(scanLog, [folder |-> idx, outcome |-> "ok",
                                         titles |-> findall(text)])
    /\ t' = 1
    /\ pc' = "for_titles"
    /\ UNCHANGED <<input_file_paths, start, episode_num, outDir, outParent, idx,
                   output_file_name, jobs, summary, beeps, failure>>

\* A scan error that is logged and treated as "no titles".
ScanSubprocessErrorIgnored ==
    /\ AtPath
    /\ PathKind(input_file_paths[idx]) = "dir"
    /\ scanLog' = Append(scanLog, [folder |-> idx, outcome |-> "SubprocessError",
                                   titles |-> <<>>])
    /\ titles' = <<>>
    /\ t' = 1
    /\ pc' = "for_titles"
    /\ UNCHANGED <<input_file_paths, start, episode_num, outDir, outParent, idx, scan,
                   output_file_name, jobs, summary, beeps, failure>>

\* subprocess.run raises SubprocessError: message, then sys.exit().
ScanSubprocessError ==
    /\ AtPath
    /\ PathKind(input_file_paths[idx]) = "dir"
    /\ scanLog' = Append(scanLog, [folder |-> idx, outcome |-> "SubprocessError",
                                   titles |-> <<>>])
    /\ pc' = "exited"
    /\ failure' = "SubprocessError"
    /\ UNCHANGED <<input_file_paths, start, episode_num, outDir, outParent, idx, scan,
                   titles, t, output_file_name, jobs, summary, beeps>>

\* subprocess.run raises OSError (the engine cannot be started): not caught,
\* the exception leaves main().
ScanOSError ==
    /\ AtPath
    /\ PathKind(input_file_paths[idx]) = "dir"
    /\ scanLog' = Append(scanLog, [folder |-> idx, outcome |-> "OSError",
                                   titles |-> <<>>])
    /\ pc' = "crashed"
    /\ failure' = "OSError"
    /\ UNCHANGED <<input_file_paths, start, episode_num, outDir, outParent, idx, scan,
                   titles, t, output_file_name, jobs, summary, beeps>>

\* for title in titles: build the command list, advance the counter.
TranscodeTitle ==
    /\ pc = "for_titles"
    /\ t <= Len(titles)
    /\ output_file_name' = OutputFileName(episode_num)
    /\ jobs' = Append(jobs,
                 [commands |-> commands(input_file_paths[idx], titles[t],
                                        OutputFileName(episode_num)),
                  episode |-> episode_num,
                  folder |-> idx])
    /\ episode_num' = IncrementEpisode(episode_num)
    /\ t' = t + 1
    /\ UNCHANGED <<input_file_paths, start, outDir, outParent, pc, idx, scan,
                   titles, scanLog, summary, beeps, failure>>

\* The title loop is exhausted: on to the next input path.
TitlesDone ==
    /\ pc = "for_titles"
    /\ t > Len(titles)
    /\ pc' = "for_paths"
    /\ idx' = idx + 1
    /\ UNCHANGED <<input_file_paths, start, episode_num, outDir, outParent, scan,
                   titles, t, output_file_name, jobs, scanLog, summary, beeps, failure>>

\* An unknown path that is skipped like a file.
HandleUnknownSkipping ==
    /\ AtPath
    /\ PathKind(input_file_paths[idx]) = "neither"
    /\ idx' = idx + 1
    /\ UNCHANGED <<input_file_paths, start, episode_num, outDir, outParent, pc, scan,
                   titles, t, output_file_name, jobs, scanLog, summary, beeps, failure>>

\* else: "[ERROR] Could not identify file path. Exiting." and sys.exit().
HandleUnknown ==
    /\ AtPath
    /\ PathKind(input_file_paths[idx]) = "neither"
    /\ pc' = "exited"
    /\ failure' = "unknown_path"
    /\ UNCHANGED <<input_file_paths, start, episode_num, outDir, outParent, idx, scan,
                   titles, t, output_file_name, jobs, scanLog, summary, beeps>>

(******************************** post-step ********************************)
\* A post-step that sounds the tone before it prints the report.
EndGracefullyBeepFirst ==
    /\ pc = "for_paths"
    /\ idx > Len(input_file_paths)
    /\ beeps' = beeps + 1
    /\ IF output_file_name = Unset
       THEN /\ summary' = <<<<"Finished!">>>>
            /\ pc' = "crashed"
            /\ failure' = "UnboundLocalError"
       ELSE /\ summary' = <<<<"Finished!">>,
                            <<"Last file output", Quote(output_file_directory \o output_file_name)>>,
                            <<"Next episode would be", episode_num>>>>
            /\ pc' = "finished"
            /\ failure' = failure
    /\ UNCHANGED <<input_file_paths, start, episode_num, outDir, outParent, idx, scan,
                   titles, t, output_file_name, jobs, scanLog>>

\* "Finished!", the last output path, the next episode number, then the tone.
\* output_file_name is a local of main(), bound only inside the title loop:
\* reading it unbound raises UnboundLocalError after "Finished!" is printed.
EndGracefully ==
    /\ pc = "for_paths"
    /\ idx > Len(input_file_paths)
    /\ IF output_file_name = Unset
       THEN /\ summary' = <<<<"Finished!">>>>
            /\ beeps' = beeps
            /\ pc' = "crashed"
            /\ failure' = "UnboundLocalError"
       ELSE /\ summary' = <<<<"Finished!">>,
                            <<"Last file output", Quote(output_file_directory \o output_file_name)>>,
                            <<"Next episode would be", episode_num>>>>
            /\ beeps' = beeps + 1
            /\ pc' = "finished"
            /\ failure' = failure
    /\ UNCHANGED <<input_file_paths, start, episode_num, outDir, outParent, idx, scan,
                   titles, t, output_file_name, jobs, scanLog>>

Next ==
    \/ CheckOutputDir
    \/ MakeOutputDir
    \/ OtherProcessCreatesDir
    \/ HandleFile
    \/ scan_for_titles
    \/ ScanSubprocessError
    \/ ScanOSError
    \/ TranscodeTitle
    \/ TitlesDone
    \/ HandleUnknown
    \/ EndGracefully

Spec == Init /\ [][Next]_vars

(************************ the scanner on its own ***************************)
InitScan ==
    /\ input_file_paths = <<"M:\\Video\\D1">>
    /\ start = 1
    /\ episode_num = 1
    /\ outParent = TRUE
    /\ outDir = "dir"
    /\ pc = "scan"
    /\ idx = 1
    /\ scan \in ScanTexts
    /\ titles = <<>>
    /\ t = 1
    /\ output_file_name = Unset
    /\ jobs = <<>>
    /\ scanLog = <<>>
    /\ summary = <<>>
    /\ beeps = 0
    /\ failure = "none"

\* titles = re.findall(...); return titles
ParseScanOutput ==
    /\ pc = "scan"
    /\ titles' = findall(scan)
    /\ pc' = "scanned"
    /\ UNCHANGED <<input_file_paths, start, episode_num, outDir, outParent, idx, scan,
                   t, output_file_name, jobs, scanLog, summary, beeps, failure>>

NextScan == ParseScanOutput

SpecScan == InitScan /\ [][NextScan]_vars

(************************ reference definitions ****************************)
Running == pc \in {"check_output_dir", "mkdir", "for_paths", "for_titles"}
Terminated == pc \in {"finished", "exited", "crashed"}

\* The fatal conditions the design names: an invalid input path, a failed scan.
FatalConditions == {"unknown_path", "SubprocessError", "OSError"}

\* Between two folders, or after the last one.
BetweenFolders ==
    \/ pc \in {"for_paths", "finished"}
    \/ pc = "crashed" /\ failure = "UnboundLocalError"

RECURSIVE TotalTitles(_)
TotalTitles(log) ==
    IF log = <<>> THEN 0 ELSE Len(Head(log).titles) + TotalTitles(Tail(log))

\* What a job refers to, read back from its command list.
JobRef(j) == [input |-> j.commands[7], title |-> j.commands[9]]
JobOutput(j) == j.commands[11]

RECURSIVE RefsOfTitles(_, _)
RefsOfTitles(path, ts) ==
    IF ts = <<>> THEN <<>>
    ELSE <<[input |-> Quote(path), title |-> Head(ts)]>> \o RefsOfTitles(path, Tail(ts))

\* The scan results, concatenated in the order the scans were made.
RECURSIVE ExpectedRefs(_)
ExpectedRefs(log) ==
    IF log = <<>> THEN <<>>
    ELSE RefsOfTitles(input_file_paths[Head(log).folder], Head(log).titles)
            \o ExpectedRefs(Tail(log))

\* Titles of the current folder not yet turned into a job.
PendingTitles == IF pc = "for_titles" THEN Len(titles) - t + 1 ELSE 0

\* The jobs of a run over directories `dirs` whose scans return `results`,
\* numbered from n.
RECURSIVE JobsOfFolder(_, _, _)
JobsOfFolder(path, ts, n) ==
    IF ts = <<>> THEN <<>>
    ELSE <<[commands |-> commands(path, Head(ts), OutputFileName(n)), episode |-> n]>>
            \o JobsOfFolder(path, Tail(ts), n + 1)

RECURSIVE RunJobs(_, _, _)
RunJobs(dirs, results, n) ==
    IF dirs = <<>> \/ results = <<>> THEN <<>>
    ELSE JobsOfFolder(Head(dirs), Head(results), n)
            \o RunJobs(Tail(dirs), Tail(results), n + Len(Head(results)))

IsNotFile(p) == PathKind(p) # "file"
PathsBefore(i) == SubSeq(input_file_paths, 1, i - 1)
ScanResults == [k \in 1..Len(scanLog) |-> scanLog[k].titles]
EmittedJobs == [k \in 1..Len(jobs) |-> [commands |-> jobs[k].commands,
                                        episode |-> jobs[k].episode]]

\* The file name the design prescribes for episode n (1 <= n <= 999).
PrescribedName(n) ==
    IF n <= 99
    THEN output_file_prefix \o Digits[(n \div 10) + 1] \o Digits[(n % 10) + 1]
            \o output_file_extension
    ELSE output_file_prefix \o Digits[(n \div 100) + 1] \o Digits[((n \div 10) % 10) + 1]
            \o Digits[(n % 10) + 1] \o output_file_extension

\* Lines of a text, split at newlines.
RECURSIVE SplitLines(_, _)
SplitLines(s, cur) ==
    IF s = <<>> THEN <<cur>>
    ELSE IF Head(s) = NL THEN <<cur>> \o SplitLines(Tail(s), <<>>)
    ELSE SplitLines(Tail(s), Append(cur, Head(s)))

\* "+ title "
TitleWord == <<43, 32, 116, 105, 116, 108, 101, 32>>

\* A line that begins with "+ title ", then digits, then a colon.
IsTitleLine(l) ==
    /\ Len(l) > Len(TitleWord)
    /\ SubSeq(l, 1, Len(TitleWord)) = TitleWord
    /\ \E e \in (Len(TitleWord) + 2)..Len(l) :
          /\ l[e] = Colon
          /\ \A k \in (Len(TitleWord) + 1)..(e - 1) : IsDigit(l[k])

TitleLineId(l) ==
    LET e == CHOOSE e \in (Len(TitleWord) + 2)..Len(l) :
                 /\ l[e] = Colon
                 /\ \A k \in (Len(TitleWord) + 1)..(e - 1) : IsDigit(l[k])
    IN  SubSeq(l, Len(TitleWord) + 1, e - 1)

RECURSIVE IdsOfLines(_)
IdsOfLines(ls) ==
    IF ls = <<>> THEN <<>>
    ELSE IF IsTitleLine(Head(ls)) THEN <<TitleLineId(Head(ls))>> \o IdsOfLines(Tail(ls))
    ELSE IdsOfLines(Tail(ls))

\* The identifiers of the title-announcement lines of a text, in order.
TitleLineIds(s) == IdsOfLines(SplitLines(s, <<>>))

(******************************** claims ***********************************)
\* C1: the k-th job emitted overall carries episode number start + (k - 1); the
\* counter advances by exactly one per job, is never reset between folders, and
\* between folders and at the end equals start plus the number of titles scanned.
C1_EpisodeCounterGapless ==
    /\ \A k \in 1..Len(jobs) : jobs[k].episode = start + (k - 1)
    /\ episode_num = start + Len(jobs)
    /\ BetweenFolders => episode_num = start + TotalTitles(scanLog)

C1_Witness ==
    /\ pc = "finished"
    /\ Len(scanLog) >= 2
    /\ Len(jobs) >= 3
    /\ jobs[1].folder # jobs[Len(jobs)].folder

\* C2: the emitted jobs are the concatenation, in configured folder order, of
\* each directory's scan result in scan order; every job names its folder and
\* its title, and repeated identifiers give one job per occurrence.
C2_JobsAreScanConcatenation ==
    LET exp == ExpectedRefs(scanLog)
    IN  /\ Len(jobs) = Len(exp) - PendingTitles
        /\ \A k \in 1..Len(jobs) : JobRef(jobs[k]) = exp[k]
        /\ \A k \in 1..Len(jobs) : jobs[k].commands[7] = Quote(input_file_paths[jobs[k].folder])
        /\ \A j, k \in 1..Len(scanLog) : j < k => scanLog[j].folder < scanLog[k].folder
        /\ \A j, k \in 1..Len(jobs) : j < k => jobs[j].folder <= jobs[k].folder

C2_Witness ==
    /\ pc = "finished"
    /\ Len(jobs) >= 3
    /\ jobs[1].folder = jobs[2].folder
    /\ JobRef(jobs[1]).title = JobRef(jobs[2]).title
    /\ jobs[3].folder # jobs[1].folder
    /\ JobRef(jobs[3]).title = JobRef(jobs[1]).title

\* C3: scan_for_titles returns the identifier of every title-announcement line
\* of the scan text, in order, wherever the line sits in the text.
C3_ScannerFindsEveryTitleLine ==
    pc = "scanned" => titles = TitleLineIds(scan)

\* C4: reaching an input path that is neither file nor directory ends the run
\* at once: no scan and no job for it or for a later folder, the counter keeps
\* its value, and the jobs are those of a run over the preceding paths alone.
C4_UnknownPathState ==
    failure = "unknown_path" =>
        /\ pc = "exited"
        /\ PathKind(input_file_paths[idx]) = "neither"
        /\ \A k \in 1..Len(scanLog) : scanLog[k].folder < idx
        /\ \A k \in 1..Len(jobs) : jobs[k].folder < idx
        /\ EmittedJobs = RunJobs(SelectSeq(PathsBefore(idx), IsNotFile), ScanResults, start)
        /\ episode_num = start + Len(jobs)
        /\ beeps = 0

C4_UnknownPathStep ==
    /\ (AtPath /\ PathKind(input_file_paths[idx]) = "neither")
          => (pc' = "exited" /\ UNCHANGED <<episode_num, jobs, scanLog, idx, titles>>)
    /\ pc = "exited" => UNCHANGED vars

C4_UnknownPathTerminates == []C4_UnknownPathState /\ [][C4_UnknownPathStep]_vars

C4_Witness ==
    /\ failure = "unknown_path"
    /\ Len(jobs) > 0
    /\ \E i \in (idx + 1)..Len(input_file_paths) : PathKind(input_file_paths[i]) = "dir"

\* C5: an input path that is a regular file is skipped with no scan and no job,
\* leaves the counter unchanged, and the run goes on; the jobs and episode
\* numbers are those of the same run with the file paths removed.
C5_FileState ==
    /\ \A k \in 1..Len(scanLog) : PathKind(input_file_paths[scanLog[k].folder]) = "dir"
    /\ \A k \in 1..Len(jobs) : PathKind(input_file_paths[jobs[k].folder]) = "dir"
    /\ (BetweenFolders /\ failure \notin FatalConditions) =>
          EmittedJobs = RunJobs(SelectSeq(PathsBefore(idx), IsNotFile), ScanResults, start)

C5_FileStep ==
    (AtPath /\ PathKind(input_file_paths[idx]) = "file")
        => /\ idx' = idx + 1
           /\ pc' = "for_paths"
           /\ UNCHANGED <<episode_num, jobs, scanLog, output_file_name, failure, beeps>>

C5_FileSkipped == []C5_FileState /\ [][C5_FileStep]_vars

C5_Witness ==
    /\ pc = "finished"
    /\ \E i \in 1..Len(input_file_paths) :
          /\ PathKind(input_file_paths[i]) = "file"
          /\ \E k \in 1..Len(jobs) : jobs[k].folder < i
          /\ \E k \in 1..Len(jobs) : jobs[k].folder > i

\* C6: every run in which no fatal condition occurs ends by reporting the next
\* unused episode number and the last output path and then sounding the tone,
\* whatever the number of inputs and of titles.
C6_NoFatalRunReports ==
    (Terminated /\ failure \notin FatalConditions
                /\ failure \notin {"FileExistsError", "FileNotFoundError"}) =>
        /\ pc = "finished"
        /\ Len(summary) = 3
        /\ summary[3] = <<"Next episode would be", episode_num>>
        /\ beeps = 1

\* C7: every job's output name is prefix + counter zero-padded to width 2 +
\* extension for counters 1 to 99 and holds the full decimal value from 100 on,
\* so no two jobs of a run share an output name.
C7_OutputNames ==
    /\ \A k \in 1..Len(jobs) :
          JobOutput(jobs[k]) = Quote(output_file_directory \o PrescribedName(jobs[k].episode))
    /\ \A j, k \in 1..Len(jobs) : j # k => JobOutput(jobs[j]) # JobOutput(jobs[k])
    /\ Len(jobs) > 0 => output_file_name = PrescribedName(jobs[Len(jobs)].episode)

C7_Witness ==
    /\ \E k \in 1..Len(jobs) : jobs[k].episode <= 99
    /\ \E k \in 1..Len(jobs) : jobs[k].episode >= 100

\* C8: a scan whose engine invocation raises ends the run at once: no job for
\* that folder or a later one, the counter stays where it was, and the folder
\* loop never moves on.
C8_ScanFailureTerminates ==
    \A k \in 1..Len(scanLog) :
        scanLog[k].outcome # "ok" =>
            /\ k = Len(scanLog)
            /\ Terminated
            /\ pc # "finished"
            /\ failure = scanLog[k].outcome
            /\ idx = scanLog[k].folder
            /\ \A j \in 1..Len(jobs) : jobs[j].folder < scanLog[k].folder
            /\ episode_num = start + Len(jobs)
            /\ Len(jobs) = TotalTitles(scanLog)

C8_Witness ==
    /\ Len(scanLog) >= 2
    /\ scanLog[Len(scanLog)].outcome = "SubprocessError"
    /\ Len(jobs) > 0
    /\ idx < Len(input_file_paths)

\* C9: the output-directory pre-step succeeds and leaves the directory in place
\* when it was absent, when it was present, and when another process creates
\* it between the existence check and the creation.
C9_PreStepNeverFails ==
    (outParent /\ pc \notin {"check_output_dir", "mkdir"}) =>
        /\ outDir = "dir"
        /\ failure \notin {"FileExistsError", "FileNotFoundError"}

\* C10: the completion tone sounds at most once, only after every input has
\* been processed and the full summary printed, and never in a run that ended
\* through a fatal condition.
C10_ToneOnlyOnSuccess ==
    /\ beeps <= 1
    /\ beeps = 1 =>
          /\ pc = "finished"
          /\ idx > Len(input_file_paths)
          /\ Len(summary) = 3
          /\ failure = "none"
    /\ failure # "none" => beeps = 0

C10_Witness ==
    /\ beeps = 1
    /\ Len(jobs) > 0
    /\ \E i \in 1..Len(input_file_paths) : PathKind(input_file_paths[i]) = "file"

\* A title line that is not the first line of the text is found.
ScannerFindsFollowingTitleLines ==
    (pc = "scanned" /\ ~IsTitleLine(Head(SplitLines(scan, <<>>))))
        => titles = TitleLineIds(scan)

====
